---------------------------- MODULE Spec2Model ----------------------------
(* A model of the GearGraph API (schmelli/geargraph-api): the resolver     *)
(* layer of src/app/schema/resolvers.py, the domain mapper, the API-key    *)
(* gate of src/app/auth/api_key.py and the HTTP handlers of                *)
(* src/app/main.py, over a small model of the graph store and of the       *)
(* Cypher statements the resolvers send to it.                             *)
EXTENDS Integers, Sequences, FiniteSets, TLC

VARIABLES
    store,        \* the graph store's content (populated out of band, read-only)
    up,           \* whether a statement sent to the store succeeds or raises
    api_key,      \* Settings.api_key, the configured secret
    db_instance,  \* memgraph._db_instance: TRUE once get_db() built the wrapper
    instance_driver, \* _db_instance.driver: the driver that wrapper holds, 0 without one
    _driver,      \* memgraph._driver: a driver (its number in `drivers`), 0 for None
    drivers,      \* every driver GraphDatabase.driver() built: "open" or "closed"
    threads,      \* where each request thread is in get_db(), and the value it holds
    lifespan,     \* main.lifespan: "running", "closed" after the shutdown
    queries,      \* the statements the running operation has sent to the store
    pc,           \* "idle", or the name of the operation that has just run
    args,         \* the inputs of that operation
    ret           \* what that operation returned, raised or answered

vars == <<store, up, api_key, db_instance, instance_driver, _driver, drivers,
          threads, lifespan, queries, pc, args, ret>>

-----------------------------------------------------------------------------
(* Python values. A value carries its type, as isinstance and truthiness   *)
(* see it; a str is the sequence of its characters.                        *)

PyNone == [t |-> "None"]
PyStr(s) == [t |-> "str", v |-> s]
PyInt(n) == [t |-> "int", v |-> n]
PyFloat(n) == [t |-> "float", v |-> n]
PyBool(b) == [t |-> "bool", v |-> b]
PyList(s) == [t |-> "list", v |-> s]

\* bool(x): what `if x:` and `not x` test.
Truthy(x) ==
    CASE x.t = "None" -> FALSE
      [] x.t = "str" -> x.v # <<>>
      [] x.t = "int" -> x.v # 0
      [] x.t = "float" -> x.v # 0
      [] x.t = "bool" -> x.v
      [] x.t = "list" -> x.v # <<>>
      [] OTHER -> TRUE

\* dict.get(key, default) on a node's property bag.
Get(node, key, default) == IF key \in DOMAIN node THEN node[key] ELSE default

\* The empty property bag, and a bag holding key with one of vals or not at all.
NoProps == <<>>
OptProp(key, vals) == {NoProps} \cup {key :> v : v \in vals}

\* Strings of at most n characters over an alphabet.
StringsUpTo(alphabet, n) == UNION {[1..k -> alphabet] : k \in 0..n}

-----------------------------------------------------------------------------
(* Bounds of the model.                                                     *)

MaxLumensLen == 2     \* longest enumerated lumens string (the spec's examples are added)
MaxStatsCount == 2    \* most nodes of one label in the stores of the stats operations
MaxGearNodes == 2     \* most GearItem nodes in the stores of the gear lookup
MaxInsights == 2      \* most Insight nodes in the stores of the gear lookup
MaxAltNodes == 2      \* most GearItem nodes in the stores of find_alternatives
MaxAutoNodes == 2     \* most nodes of one label in the stores of the autocompletes
MaxNameLen == 2       \* longest name in the stores of the autocompletes
MaxLimit == 2         \* largest limit argument
MaxOffset == 1        \* largest offset argument
MaxCategories == 2    \* most Category nodes in the stores of the category hierarchy
MaxFamilies == 2      \* most ProductFamily nodes in the stores of the category hierarchy
MaxRequests == 2      \* most requests in flight at once


-----------------------------------------------------------------------------
(* Characters. str.isdigit() holds of the decimal digits and of a few       *)
(* other characters, such as SUPERSCRIPT TWO (written "sup2" here), that    *)
(* int() does not accept.                                                    *)

DecimalChars == <<"0", "1", "2", "3", "4", "5", "6", "7", "8", "9">>
IsDecimal(c) == \E i \in 1..Len(DecimalChars) : DecimalChars[i] = c
isdigit(c) == IsDecimal(c) \/ c = "sup2"
DigitValue(c) == (CHOOSE i \in 1..Len(DecimalChars) : DecimalChars[i] = c) - 1

\* ''.join(filter(str.isdigit, value))
RECURSIVE JoinFilterDigits(_)
JoinFilterDigits(s) ==
    IF s = <<>> THEN <<>>
    ELSE IF isdigit(Head(s)) THEN <<Head(s)>> \o JoinFilterDigits(Tail(s))
    ELSE JoinFilterDigits(Tail(s))

\* int(s) for a str of isdigit characters: ValueError on the empty string and
\* on a character that is no decimal digit, the base-10 value otherwise.
RECURSIVE DecimalValue(_)
DecimalValue(s) ==
    IF s = <<>> THEN 0
    ELSE 10 * DecimalValue(SubSeq(s, 1, Len(s) - 1)) + DigitValue(s[Len(s)])

int(s) ==
    IF s # <<>> /\ \A i \in 1..Len(s) : IsDecimal(s[i])
    THEN [raised |-> FALSE, v |-> PyInt(DecimalValue(s))]
    ELSE [raised |-> TRUE, v |-> "ValueError"]

\* _parse_int without the digit filter: int(value) on the raw string.
parse_int_unfiltered(value) ==
    IF value = PyNone THEN PyNone
    ELSE IF value.t \in {"int", "bool"} THEN value
    ELSE IF value.t = "str"
         THEN IF int(value.v).raised THEN PyNone ELSE int(value.v).v
    ELSE PyNone

\* resolvers._parse_int. isinstance(value, int) holds of int and of bool.
_parse_int(value) ==
    IF value = PyNone THEN PyNone
    ELSE IF value.t \in {"int", "bool"} THEN value
    ELSE IF value.t = "str"
         THEN LET parsed == int(JoinFilterDigits(value.v))
              IN  IF parsed.raised THEN PyNone ELSE parsed.v
    ELSE PyNone

\* resolvers._map_gear_item: the GearItem built from a node's property bag.
\* brand and insights keep the defaults of types.GearItem.
_map_gear_item(node) ==
    [gear_id |-> Get(node, "gearId", Get(node, "name", PyStr(<<>>))),
     name |-> Get(node, "name", PyStr(<<>>)),
     brand_name |-> Get(node, "brand", Get(node, "brandName", PyStr(<<>>))),
     product_type |-> Get(node, "productType", PyNone),
     category |-> Get(node, "category", PyNone),
     description |-> Get(node, "description", PyNone),
     weight_grams |-> Get(node, "weight_grams", PyNone),
     price_usd |-> Get(node, "price_usd", PyNone),
     volume_liters |-> Get(node, "volumeLiters", PyNone),
     capacity_persons |-> Get(node, "capacityPersons", PyNone),
     temp_rating_f |-> Get(node, "tempRatingF", PyNone),
     fill_power |-> Get(node, "fillPower", PyNone),
     r_value |-> Get(node, "rValue", PyNone),
     lumens |-> _parse_int(Get(node, "lumens", PyNone)),
     fuel_type |-> Get(node, "fuelType", PyNone),
     waterproof_rating |-> Get(node, "waterproofRating", PyNone),
     materials |-> Get(node, "materials", PyNone),
     features |-> Get(node, "features", PyNone),
     product_url |-> Get(node, "productUrl", PyNone),
     image_url |-> Get(node, "imageUrl", PyNone),
     brand |-> PyNone,
     insights |-> PyNone]

-----------------------------------------------------------------------------
(* The state every specification starts from, and the step that ends an    *)
(* operation.                                                               *)

NoStore == [gear |-> <<>>, brands |-> <<>>, insights |-> <<>>]
Nothing == <<>>

Requests == 1..MaxRequests
Idle == [at |-> "idle", driver |-> 0]

InitWith(stores, ups, keys) ==
    /\ store \in stores
    /\ up \in ups
    /\ api_key \in keys
    /\ db_instance = FALSE
    /\ instance_driver = 0
    /\ _driver = 0
    /\ drivers = <<>>
    /\ threads = [r \in Requests |-> Idle]
    /\ lifespan = "running"
    /\ queries = <<>>
    /\ pc = "idle"
    /\ args = Nothing
    /\ ret = Nothing

\* The caller has taken the result; the next operation may start.
Return ==
    /\ pc # "idle"
    /\ pc' = "idle"
    /\ args' = Nothing
    /\ ret' = Nothing
    /\ queries' = <<>>
    /\ UNCHANGED <<store, up, api_key, db_instance, instance_driver, _driver, drivers,
                   threads, lifespan>>

\* memgraph.get_driver, run from its test to its return.
get_driver ==
    IF _driver = 0
    THEN /\ drivers' = Append(drivers, "open")
         /\ _driver' = Len(drivers) + 1
    ELSE UNCHANGED <<_driver, drivers>>

\* memgraph.get_db as an operation above calls it: from its test to its
\* return, MemgraphDB.__init__ included, while no request thread moves.
get_db ==
    /\ IF ~db_instance
       THEN /\ get_driver
            /\ instance_driver' = _driver'
            /\ db_instance' = TRUE
       ELSE UNCHANGED <<db_instance, instance_driver, _driver, drivers>>
    /\ UNCHANGED <<threads, lifespan>>

-----------------------------------------------------------------------------
(* The domain mapper, applied to bounded inputs (C7, C8).                   *)

LumensAlphabet == {"5", "0", "l", " ", "sup2"}
Bright == <<"b", "r", "i", "g", "h", "t">>
Lumens500 == <<"5", "0", "0", " ", "l", "u", "m", "e", "n", "s">>
LumensStrings == StringsUpTo(LumensAlphabet, MaxLumensLen) \cup {Bright, Lumens500}
LumensValues ==
    {PyNone, PyInt(500), PyInt(0), PyFloat(500), PyBool(TRUE), PyList(<<>>)}
        \cup {PyStr(s) : s \in LumensStrings}

IdValues == {PyNone, PyStr(<<>>), PyStr(<<"g", "1">>)}
NameValues == {PyNone, PyStr(<<"t", "e", "n", "t">>)}
MapperNodes ==
    {a @@ b @@ c @@ d @@ e :
        a \in OptProp("gearId", IdValues),
        b \in OptProp("name", NameValues),
        c \in OptProp("brand", {PyStr(<<"m", "s", "r">>)}),
        d \in OptProp("brandName", {PyStr(<<"M", "S", "R">>)}),
        e \in OptProp("lumens", {PyInt(500), PyStr(Lumens500), PyStr(Bright)})}

ParseInt ==
    /\ pc = "idle"
    /\ \E value \in LumensValues :
        /\ pc' = "_parse_int"
        /\ args' = value
        /\ ret' = _parse_int(value)
    /\ UNCHANGED <<store, up, api_key, db_instance, instance_driver, _driver, drivers,
                   threads, lifespan, queries>>

MapGearItem ==
    /\ pc = "idle"
    /\ \E node \in MapperNodes :
        /\ pc' = "_map_gear_item"
        /\ args' = node
        /\ ret' = _map_gear_item(node)
    /\ UNCHANGED <<store, up, api_key, db_instance, instance_driver, _driver, drivers,
                   threads, lifespan, queries>>

InitMapper == InitWith({NoStore}, {TRUE}, {<<>>})
NextMapper == ParseInt \/ MapGearItem \/ Return
SpecMapper == InitMapper /\ [][NextMapper]_vars

\* C7 (as amended): _parse_int returns the value itself when it is an int (a
\* bool included); for a str, the integer written by its isdigit characters
\* when there is at least one and all of them are decimal digits ("500 lumens"
\* gives 500), and None when there is none ("bright") or when one of them is
\* no decimal digit; None for None, for a float and for every other shape.
\* It never raises: the result is always a value or None.
C7_ParseIntAmended ==
    pc = "_parse_int" =>
        /\ ret.t \in {"None", "int", "bool"}
        /\ args.t \in {"int", "bool"} => ret = args
        /\ args.t = "str" =>
            LET digits == SelectSeq(args.v, isdigit)
            IN  IF digits # <<>> /\ \A i \in 1..Len(digits) : IsDecimal(digits[i])
                THEN ret = PyInt(DecimalValue(digits))
                ELSE ret = PyNone
        /\ args.t \notin {"int", "bool", "str"} => ret = PyNone
        /\ args = PyInt(500) => ret = PyInt(500)
        /\ args = PyStr(Lumens500) => ret = PyInt(500)
        /\ args = PyStr(Bright) => ret = PyNone

\* C7, witness: "500 lumens" has been parsed, to 500.
C7_Witness ==
    pc = "_parse_int" /\ args = PyStr(Lumens500) /\ ret = PyInt(500)

\* C7 as stated: a value that is already numeric (an int or a float) comes
\* back as itself; a str gives the integer formed by its digit characters, a
\* digit-free str, None and every other shape give None.
C7_ParseIntAsStated ==
    pc = "_parse_int" =>
        /\ args.t \in {"int", "float"} => ret = args
        /\ args.t = "str" =>
            LET digits == SelectSeq(args.v, isdigit)
            IN  IF digits = <<>> THEN ret = PyNone
                ELSE (\A i \in 1..Len(digits) : IsDecimal(digits[i]))
                        => ret = PyInt(DecimalValue(digits))
        /\ args.t \notin {"int", "float", "str"} => ret = PyNone

\* C8: the GearItem of every property bag has gear_id and name populated:
\* gear_id is the gearId property if it is there and not null, else the name
\* property if it is there and not null, else the empty string.
C8_IdentityPopulated ==
    pc = "_map_gear_item" =>
        LET has(key) == key \in DOMAIN args /\ args[key] # PyNone
        IN  /\ ret.gear_id.t = "str"
            /\ ret.name.t = "str"
            /\ ret.gear_id = IF has("gearId") THEN args["gearId"]
                             ELSE IF has("name") THEN args["name"]
                             ELSE PyStr(<<>>)

-----------------------------------------------------------------------------
(* The graph store client (src/app/db/memgraph.py) and the Cypher the       *)
(* resolvers send through it. A statement is logged in `queries` when it    *)
(* is sent; it raises when the store is down.                               *)

\* What an operation hands back: a value, or the store's error unchanged.
Value(v) == [raised |-> FALSE, value |-> v]
Raised == [raised |-> TRUE, value |-> "store error"]

\* One statement as sent: its text (by name), its WHERE clauses, its parameters.
Statement(name, where, params) == [statement |-> name, where |-> where, params |-> params]

\* MemgraphDB.execute_single: the first row, or None.
execute_single(rows) == IF rows # <<>> THEN rows[1] ELSE PyNone

\* A node's property as Cypher reads it: null when the node has none.
Prop(node, key) == Get(node, key, PyNone)

IsNumber(x) == x.t \in {"int", "float"}

\* Cypher comparisons under WHERE: a row passes only when the comparison is
\* true, and a comparison with null is null.
CyEq(a, b) ==
    /\ a # PyNone
    /\ b # PyNone
    /\ IF IsNumber(a) /\ IsNumber(b) THEN a.v = b.v ELSE a = b
CyNe(a, b) ==
    /\ a # PyNone
    /\ b # PyNone
    /\ ~(IF IsNumber(a) /\ IsNumber(b) THEN a.v = b.v ELSE a = b)
CyLt(a, b) == IsNumber(a) /\ IsNumber(b) /\ a.v < b.v
CyGt(a, b) == IsNumber(a) /\ IsNumber(b) /\ a.v > b.v
CyLe(a, b) == IsNumber(a) /\ IsNumber(b) /\ a.v <= b.v

\* Code points of the letters the stores use, and toLower.
CodePoint(c) ==
    CASE c = "A" -> 65 [] c = "B" -> 66 [] c = "T" -> 84 [] c = "U" -> 85
      [] c = "a" -> 97 [] c = "b" -> 98 [] c = "t" -> 116 [] c = "u" -> 117
LowerChar(c) ==
    CASE c = "A" -> "a" [] c = "B" -> "b" [] c = "T" -> "t" [] c = "U" -> "u"
      [] OTHER -> c
toLower(s) == [i \in 1..Len(s) |-> LowerChar(s[i])]

\* s STARTS WITH q, s CONTAINS q on character sequences.
StartsWith(s, q) == Len(q) <= Len(s) /\ SubSeq(s, 1, Len(q)) = q
Contains(s, q) ==
    \E k \in 0..(Len(s) - Len(q)) : SubSeq(s, k + 1, k + Len(q)) = q

\* ORDER BY on one value, ascending: numbers by value, strings by code point,
\* null after everything else.
StrLess(s, r) ==
    \E k \in 1..(Len(r)) :
        /\ \A i \in 1..(k - 1) : i <= Len(s) /\ s[i] = r[i]
        /\ \/ k = Len(s) + 1
           \/ k <= Len(s) /\ CodePoint(s[k]) < CodePoint(r[k])
OrderLess(a, b) ==
    IF a = PyNone THEN FALSE
    ELSE IF b = PyNone THEN TRUE
    ELSE IF a.t = "str" THEN StrLess(a.v, b.v)
    ELSE a.v < b.v

\* Sort keys are tuples of values, compared component by component.
KeyLess(k1, k2) ==
    \E c \in 1..Len(k1) :
        /\ \A i \in 1..(c - 1) : k1[i] = k2[i]
        /\ OrderLess(k1[c], k2[c])

\* ORDER BY: rows by ascending key (keys[i] is the key of rows[i]); rows with
\* equal keys keep the order the scan produced them in.
OrderBy(rows, keys) ==
    LET n == Len(rows)
        before(i, j) == KeyLess(keys[i], keys[j])
                        \/ (~KeyLess(keys[j], keys[i]) /\ i < j)
        rank(i) == Cardinality({j \in 1..n : before(j, i)}) + 1
    IN  [r \in 1..n |-> rows[CHOOSE i \in 1..n : rank(i) = r]]

\* SKIP and LIMIT.
Skip(rows, k) == SubSeq(rows, k + 1, Len(rows))
Limit(rows, k) == SubSeq(rows, 1, IF k < Len(rows) THEN k ELSE Len(rows))

-----------------------------------------------------------------------------
(* The API-key gate and the /graphql route (C2).                            *)

\* verify_api_key without the `if not api_key` guard.
verify_api_key_unguarded(key) == key = PyStr(api_key)

\* auth.api_key.verify_api_key, against Settings.api_key.
verify_api_key(key) ==
    IF ~Truthy(key) THEN FALSE ELSE key = PyStr(api_key)

Unauthorized ==
    [status |-> 401, detail |-> "Invalid or missing API key", handled |-> FALSE]
Handled == [status |-> 200, detail |-> "", handled |-> TRUE]

\* graphql_app.handle_request: the GraphQL handler runs the document, which
\* sends no statement (the explorer page, introspection) or some.
HandleRequest ==
    /\ ret' = Handled
    /\ \E sent \in {<<>>, <<Statement("graphql document", <<>>, NoProps)>>} :
        /\ queries' = sent
        /\ IF sent # <<>> THEN get_db
           ELSE UNCHANGED <<db_instance, instance_driver, _driver, drivers,
                            threads, lifespan>>

\* main.graphql_with_auth
GraphqlWithAuth ==
    /\ pc = "idle"
    /\ \E method \in {"GET", "POST", "OPTIONS"}, key \in
            {PyNone, PyStr(<<>>), PyStr(<<"k">>), PyStr(<<"K">>), PyStr(<<"k", "k">>)} :
        /\ pc' = "graphql_with_auth"
        /\ args' = [method |-> method, key |-> key]
        /\ IF method = "OPTIONS" THEN HandleRequest
           ELSE IF method = "GET" THEN HandleRequest
           ELSE IF ~verify_api_key(key)
                THEN /\ ret' = Unauthorized
                     /\ UNCHANGED <<queries, db_instance, instance_driver, _driver,
                                    drivers, threads, lifespan>>
           ELSE HandleRequest
    /\ UNCHANGED <<store, up, api_key>>

Secrets == {<<>>, <<"k">>, <<"k", "k">>, <<"d", "e", "v">>}
InitAuth == InitWith({NoStore}, {TRUE}, Secrets)
NextAuth == GraphqlWithAuth \/ Return
SpecAuth == InitAuth /\ [][NextAuth]_vars

\* C2: on /graphql an OPTIONS or GET request always reaches the GraphQL
\* handler; a POST request reaches it if and only if its X-API-Key header is
\* present, non-empty and equal to the configured secret, and is otherwise
\* answered 401 "Invalid or missing API key" with the handler not invoked and
\* no statement sent to the store.
C2_AuthGate ==
    pc = "graphql_with_auth" =>
        LET valid == args.key.t = "str" /\ args.key.v # <<>> /\ args.key.v = api_key
        IN  /\ args.method \in {"OPTIONS", "GET"} => ret.handled
            /\ args.method = "POST" => (ret.handled <=> valid)
            /\ ~ret.handled =>
                /\ ret.status = 401
                /\ ret.detail = "Invalid or missing API key"
                /\ queries = <<>>

\* C2, witness: a POST with a wrong key has been refused with 401.
C2_Witness ==
    /\ pc = "graphql_with_auth"
    /\ args.method = "POST"
    /\ args.key = PyStr(<<"K">>)
    /\ api_key = <<"k">>
    /\ ret.status = 401

-----------------------------------------------------------------------------
(* Statistics: GET /stats and the GraphQL stats resolver (C9).              *)

\* MATCH (g:GearItem) WITH count(g) as gear
\* MATCH (b:OutdoorBrand) WITH gear, count(b) as brands
\* MATCH (i:Insight) WITH gear, brands, count(i) as insights
\* RETURN gear, brands, insights
\* count(g) alone aggregates an empty match to one row holding 0; the later
\* counts are grouped by the carried columns, so an empty match leaves no
\* group and the statement returns no row.
StatsRows(st) ==
    LET gear == <<[gear |-> Len(st.gear)]>>
        brands == IF Len(st.brands) = 0 THEN <<>>
                  ELSE <<[gear |-> gear[1].gear, brands |-> Len(st.brands)]>>
    IN  IF brands = <<>> \/ Len(st.insights) = 0 THEN <<>>
        ELSE <<[gear |-> brands[1].gear, brands |-> brands[1].brands,
                insights |-> Len(st.insights)]>>

StatsStatement == Statement("stats", <<>>, NoProps)

\* resolvers.resolve_stats
resolve_stats ==
    IF ~up THEN Raised
    ELSE LET result == execute_single(StatsRows(store))
         IN  Value([gear_count |-> IF result # PyNone THEN result.gear ELSE 0,
                    brand_count |-> IF result # PyNone THEN result.brands ELSE 0,
                    insight_count |-> IF result # PyNone THEN result.insights ELSE 0])

ResolveStats ==
    /\ pc = "idle"
    /\ pc' = "resolve_stats"
    /\ args' = Nothing
    /\ get_db
    /\ queries' = <<StatsStatement>>
    /\ ret' = resolve_stats
    /\ UNCHANGED <<store, up, api_key>>

\* main.stats: the handler of GET /stats
stats ==
    IF ~up THEN [status |-> 500, body |-> [error |-> "store error"]]
    ELSE LET result == StatsRows(store)
         IN  IF result # <<>>
             THEN [status |-> 200,
                   body |-> [gearCount |-> result[1].gear,
                             brandCount |-> result[1].brands,
                             insightCount |-> result[1].insights]]
             ELSE [status |-> 200, body |-> [error |-> "No data"]]

Stats ==
    /\ pc = "idle"
    /\ pc' = "stats"
    /\ args' = Nothing
    /\ get_db
    /\ queries' = <<StatsStatement>>
    /\ ret' = stats
    /\ UNCHANGED <<store, up, api_key>>

PlainNode == "name" :> PyStr(<<"a">>)
LooseInsight == [of |-> 0, summary |-> PyStr(<<"a">>), content |-> PyStr(<<"a">>),
                 category |-> PyNone, source_url |-> PyNone]
StatsStores ==
    {[gear |-> [i \in 1..g |-> PlainNode],
      brands |-> [i \in 1..b |-> PlainNode],
      insights |-> [i \in 1..n |-> LooseInsight]] :
        g \in 0..MaxStatsCount, b \in 0..MaxStatsCount, n \in 0..MaxStatsCount}

InitStats == InitWith(StatsStores, BOOLEAN, {<<"k">>})
NextStats == ResolveStats \/ Stats \/ Return
SpecStats == InitStats /\ [][NextStats]_vars

\* C9: whenever the aggregate statement does not raise, GET /stats answers
\* with a body holding gearCount, brandCount and insightCount, the same three
\* counts the stats resolver reports on that store: zero for all three, and
\* no error, when the statement yields no row.
C9_StatsMirror ==
    (pc = "stats" /\ up) =>
        /\ ret.status = 200
        /\ DOMAIN ret.body = {"gearCount", "brandCount", "insightCount"}
        /\ ret.body.gearCount = resolve_stats.value.gear_count
        /\ ret.body.brandCount = resolve_stats.value.brand_count
        /\ ret.body.insightCount = resolve_stats.value.insight_count

-----------------------------------------------------------------------------
(* Single gear lookup with its insights (C3, C4).                           *)

\* MATCH (g:GearItem {gearId: $id}) RETURN g
GearByIdRows(st, id) ==
    LET pass(g) == CyEq(Prop(g, "gearId"), id)
        nodes == SelectSeq(st.gear, pass)
    IN  [i \in 1..Len(nodes) |-> [g |-> nodes[i]]]

\* MATCH (g:GearItem) WHERE toLower(g.name) = toLower($name) RETURN g
GearByNameRows(st, name) ==
    LET pass(g) == /\ Prop(g, "name") # PyNone
                   /\ name # PyNone
                   /\ toLower(Prop(g, "name").v) = toLower(name.v)
        nodes == SelectSeq(st.gear, pass)
    IN  [i \in 1..Len(nodes) |-> [g |-> nodes[i]]]

\* MATCH (g:GearItem {gearId: $id})-[:HAS_TIP]->(i:Insight)
\* RETURN i.summary as summary, i.content as content,
\*        i.category as category, i.sourceUrl as source_url
\* One row per (g, i) pair, from GearItem number `from` on.
RECURSIVE InsightRows(_, _, _)
InsightRows(st, id, from) ==
    IF from > Len(st.gear) THEN <<>>
    ELSE LET tipOf(i) == i.of = from
             tips == IF CyEq(Prop(st.gear[from], "gearId"), id)
                     THEN SelectSeq(st.insights, tipOf) ELSE <<>>
         IN  [k \in 1..Len(tips) |->
                 [summary |-> tips[k].summary, content |-> tips[k].content,
                  category |-> tips[k].category, source_url |-> tips[k].source_url]]
             \o InsightRows(st, id, from + 1)

\* The tail of resolve_gear, from `if not result` on; `sent` is the lookup
\* statement, `rows` what it returned.
GearWithInsights(sent, rows) ==
    IF ~up THEN [ret |-> Raised, queries |-> <<sent>>]
    ELSE LET result == execute_single(rows)
         IN  IF result = PyNone THEN [ret |-> Value(PyNone), queries |-> <<sent>>]
             ELSE LET gear == _map_gear_item(result.g)
                      insights_result == InsightRows(store, gear.gear_id, 1)
                  IN  [ret |-> Value([gear EXCEPT !.insights = PyList(insights_result)]),
                       queries |-> <<sent, Statement("insights of gear",
                                                     <<"g.gearId = $id">>,
                                                     "id" :> gear.gear_id)>>]

\* resolve_gear with the final `else: return None` lost: the name lookup runs
\* whenever no id is given.
resolve_gear_no_else(gear_id, name) ==
    IF Truthy(gear_id)
    THEN GearWithInsights(Statement("gear by id", <<"g.gearId = $id">>, "id" :> gear_id),
                          GearByIdRows(store, gear_id))
    ELSE GearWithInsights(Statement("gear by name",
                                    <<"toLower(g.name) = toLower($name)">>,
                                    "name" :> name),
                          GearByNameRows(store, name))

\* resolvers.resolve_gear: what it returns and the statements it sends.
resolve_gear(gear_id, name) ==
    IF Truthy(gear_id)
    THEN GearWithInsights(Statement("gear by id", <<"g.gearId = $id">>, "id" :> gear_id),
                          GearByIdRows(store, gear_id))
    ELSE IF Truthy(name)
    THEN GearWithInsights(Statement("gear by name",
                                    <<"toLower(g.name) = toLower($name)">>,
                                    "name" :> name),
                          GearByNameRows(store, name))
    ELSE [ret |-> Value(PyNone), queries |-> <<>>]

ResolveGear ==
    /\ pc = "idle"
    /\ \E gear_id \in {PyNone, PyStr(<<>>), PyStr(<<"a">>), PyStr(<<"b">>)},
          name \in {PyNone, PyStr(<<>>), PyStr(<<"a">>), PyStr(<<"A">>)} :
        /\ pc' = "resolve_gear"
        /\ args' = [gear_id |-> gear_id, name |-> name]
        /\ get_db
        /\ ret' = resolve_gear(gear_id, name).ret
        /\ queries' = resolve_gear(gear_id, name).queries
    /\ UNCHANGED <<store, up, api_key>>

\* Stores of GearItem nodes with or without a gearId, whose names differ by
\* case only, and of Insight nodes, each the tip of one GearItem.
LookupNodes ==
    {a @@ b : a \in OptProp("gearId", {PyStr(<<"a">>), PyStr(<<"b">>)}),
              b \in OptProp("name", {PyStr(<<"a">>), PyStr(<<"A">>)}) \ {NoProps}}
InsightLetters == <<"a", "b", "t", "u">>
InsightOf(owner, k) ==
    [of |-> owner, summary |-> PyStr(<<InsightLetters[k]>>), content |-> PyStr(<<"t">>),
     category |-> PyNone, source_url |-> PyNone]
LookupStores ==
    UNION {
        {[gear |-> g, brands |-> <<>>,
          insights |-> [k \in 1..Len(owners) |-> InsightOf(owners[k], k)]] :
            g \in [1..n -> LookupNodes],
            owners \in UNION {[1..m -> 1..n] : m \in 0..MaxInsights}} :
        n \in 0..MaxGearNodes}

InitLookup == InitWith(LookupStores, BOOLEAN, {<<"k">>})
NextLookup == ResolveGear \/ Return
SpecLookup == InitLookup /\ [][NextLookup]_vars

\* C3: the GearItem node resolve_gear looked up, the first one whose gearId is the
\* id given, or, no id given, the first whose name is the name given, case
\* ignored (0: none).
C3_Found ==
    LET id == args.gear_id
        byId(i) == "gearId" \in DOMAIN store.gear[i] /\ store.gear[i]["gearId"] = id
        byName(i) == /\ "name" \in DOMAIN store.gear[i]
                     /\ toLower(store.gear[i]["name"].v) = toLower(args.name.v)
        hits == IF id.t = "str" /\ id.v # <<>>
                THEN {i \in 1..Len(store.gear) : byId(i)}
                ELSE {i \in 1..Len(store.gear) : byName(i)}
    IN  IF hits = {} THEN 0 ELSE CHOOSE i \in hits : \A j \in hits : i <= j

\* C3: whenever resolve_gear returns a gear item, its insights are exactly
\* the Insight records with a HAS_TIP relation from that same GearItem node,
\* in the order the store holds them.
C3_InsightsOfReturnedNode ==
    (pc = "resolve_gear" /\ ~ret.raised /\ ret.value # PyNone) =>
        LET tipOf(i) == i.of = C3_Found
            tips == SelectSeq(store.insights, tipOf)
        IN  /\ ret.value.insights.t = "list"
            /\ Len(ret.value.insights.v) = Len(tips)
            /\ \A k \in 1..Len(tips) :
                ret.value.insights.v[k].summary = tips[k].summary

\* C4: resolve_gear with neither gear_id nor name returns None and sends no
\* statement to the store.
C4_NeitherGiven ==
    (pc = "resolve_gear" /\ args.gear_id = PyNone /\ args.name = PyNone) =>
        ret = Value(PyNone) /\ queries = <<>>

\* C4, witness: resolve_gear has run with neither argument, on a store that
\* holds gear.
C4_Witness ==
    /\ pc = "resolve_gear"
    /\ args.gear_id = PyNone
    /\ args.name = PyNone
    /\ Len(store.gear) > 0
    /\ db_instance

-----------------------------------------------------------------------------
(* The predicate clauses the list resolvers assemble, as the store          *)
(* evaluates them on GearItem g with the statement's parameters.            *)

ClauseHolds(clause, g, params) ==
    CASE clause = "g.brand = $brand_name" ->
            CyEq(Prop(g, "brand"), params["brand_name"])
      [] clause = "g.productType = $product_type" ->
            CyEq(Prop(g, "productType"), params["product_type"])
      [] clause = "g.category = $category" ->
            CyEq(Prop(g, "category"), params["category"])
      [] clause = "g.weight_grams < $weight_lt" ->
            CyLt(Prop(g, "weight_grams"), params["weight_lt"])
      [] clause = "g.weight_grams > $weight_gt" ->
            CyGt(Prop(g, "weight_grams"), params["weight_gt"])
      [] clause = "g.price_usd < $price_lt" ->
            CyLt(Prop(g, "price_usd"), params["price_lt"])
      [] clause = "g.price_usd > $price_gt" ->
            CyGt(Prop(g, "price_usd"), params["price_gt"])
      [] clause = "g.capacityPersons = $capacity" ->
            CyEq(Prop(g, "capacityPersons"), params["capacity"])
      [] clause = "g.gearId <> $id" ->
            CyNe(Prop(g, "gearId"), params["id"])
      [] clause = "g.weight_grams <= $max_weight" ->
            CyLe(Prop(g, "weight_grams"), params["max_weight"])
      [] clause = "g.price_usd <= $max_price" ->
            CyLe(Prop(g, "price_usd"), params["max_price"])

\* WHERE c1 AND c2 AND ...
AllHold(where, g, params) ==
    \A k \in 1..Len(where) : ClauseHolds(where[k], g, params)

\* `if value: where_clauses.append(clause); params[key] = value`
Append_If(built, value, clause, key) ==
    IF Truthy(value)
    THEN [where |-> Append(built.where, clause), params |-> (key :> value) @@ built.params]
    ELSE built

\* [_map_gear_item(row["g"]) for row in results]
MapRows(nodes) == [k \in 1..Len(nodes) |-> _map_gear_item(nodes[k])]

-----------------------------------------------------------------------------
(* find_alternatives (C5, C6).                                              *)

\* MATCH (g:GearItem {gearId: $id})
\* RETURN g.productType as product_type, g.category as category
ReferenceRows(st, id) ==
    LET pass(g) == CyEq(Prop(g, "gearId"), id)
        nodes == SelectSeq(st.gear, pass)
    IN  [i \in 1..Len(nodes) |->
            [product_type |-> Prop(nodes[i], "productType"),
             category |-> Prop(nodes[i], "category")]]

\* MATCH (g:GearItem) WHERE g.productType = $product_type AND {where_clause}
\* RETURN g ORDER BY g.weight_grams ASC LIMIT $limit
CandidateRows(st, where, params) ==
    LET pass(g) == AllHold(<<"g.productType = $product_type">> \o where, g, params)
        rows == SelectSeq(st.gear, pass)
        keys == [k \in 1..Len(rows) |-> <<Prop(rows[k], "weight_grams")>>]
    IN  Limit(OrderBy(rows, keys), params["limit"].v)

\* resolve_find_alternatives with the early return taken only when the
\* reference is missing: `if not ref:`.
resolve_find_alternatives_ref_only(gear_id, filter, limit) ==
    LET refSent == Statement("reference product type", <<"g.gearId = $id">>,
                             "id" :> gear_id)
        ref == execute_single(ReferenceRows(store, gear_id))
    IN  IF ~up THEN [ret |-> Raised, queries |-> <<refSent>>]
        ELSE IF ref = PyNone
        THEN [ret |-> Value(<<>>), queries |-> <<refSent>>]
        ELSE LET where == <<"g.gearId <> $id">>
                 params == ("id" :> gear_id) @@ ("product_type" :> ref.product_type)
                           @@ ("limit" :> PyInt(limit))
             IN  [ret |-> Value(MapRows(CandidateRows(store, where, params))),
                  queries |-> <<refSent, Statement("candidates", where, params)>>]

\* resolvers.resolve_find_alternatives: what it returns and the statements it
\* sends. An input object is always true, so `if filter` asks only whether
\* one was passed.
resolve_find_alternatives(gear_id, filter, limit) ==
    LET refSent == Statement("reference product type", <<"g.gearId = $id">>,
                             "id" :> gear_id)
        ref == execute_single(ReferenceRows(store, gear_id))
    IN  IF ~up THEN [ret |-> Raised, queries |-> <<refSent>>]
        ELSE IF ref = PyNone \/ ~Truthy(ref.product_type)
        THEN [ret |-> Value(<<>>), queries |-> <<refSent>>]
        ELSE LET start ==
                    [where |-> <<"g.gearId <> $id">>,
                     params |-> ("id" :> gear_id)
                                @@ ("product_type" :>
                                        IF filter # PyNone /\ Truthy(filter.product_type)
                                        THEN filter.product_type ELSE ref.product_type)
                                @@ ("limit" :> PyInt(limit))]
                 built ==
                    IF filter = PyNone THEN start
                    ELSE Append_If(
                            Append_If(
                                Append_If(start, filter.max_weight,
                                          "g.weight_grams <= $max_weight", "max_weight"),
                                filter.max_price, "g.price_usd <= $max_price", "max_price"),
                            filter.capacity_persons,
                            "g.capacityPersons = $capacity", "capacity")
             IN  [ret |-> Value(MapRows(CandidateRows(store, built.where, built.params))),
                  queries |-> <<refSent, Statement("candidates", built.where, built.params)>>]

\* AlternativeFilter values: nothing set, each field set alone (to a value,
\* to zero, to the empty string), and two fields together.
NoAlternativeFilter ==
    [max_weight |-> PyNone, max_price |-> PyNone, capacity_persons |-> PyNone,
     product_type |-> PyNone]
AlternativeFilters ==
    {PyNone,
     NoAlternativeFilter,
     [NoAlternativeFilter EXCEPT !.product_type = PyStr(<<"U">>)],
     [NoAlternativeFilter EXCEPT !.product_type = PyStr(<<>>)],
     [NoAlternativeFilter EXCEPT !.max_weight = PyInt(1)],
     [NoAlternativeFilter EXCEPT !.max_weight = PyInt(0)],
     [NoAlternativeFilter EXCEPT !.max_price = PyFloat(1)],
     [NoAlternativeFilter EXCEPT !.capacity_persons = PyInt(2)],
     [NoAlternativeFilter EXCEPT !.product_type = PyStr(<<"U">>), !.max_weight = PyInt(1)]}

ResolveFindAlternatives ==
    /\ pc = "idle"
    /\ \E gear_id \in {PyStr(<<"a">>), PyStr(<<"b">>)},
          filter \in AlternativeFilters,
          limit \in 0..MaxLimit :
        /\ pc' = "resolve_find_alternatives"
        /\ args' = [gear_id |-> gear_id, filter |-> filter, limit |-> limit]
        /\ get_db
        /\ ret' = resolve_find_alternatives(gear_id, filter, limit).ret
        /\ queries' = resolve_find_alternatives(gear_id, filter, limit).queries
    /\ UNCHANGED <<store, up, api_key>>

\* GearItem nodes of two ids and two product types, some lacking a property.
AltNode(id, type, weight) ==
    ("gearId" :> PyStr(id)) @@ ("productType" :> PyStr(type))
        @@ ("weight_grams" :> PyInt(weight)) @@ ("name" :> PyStr(id))
AltNodes ==
    {AltNode(<<"a">>, <<"T">>, 2),
     AltNode(<<"a">>, <<"U">>, 1),
     AltNode(<<"b">>, <<"T">>, 1),
     AltNode(<<"b">>, <<"T">>, 2),
     AltNode(<<"b">>, <<"U">>, 1),
     ("gearId" :> PyStr(<<"a">>)) @@ ("weight_grams" :> PyInt(1)),
     ("productType" :> PyStr(<<"T">>)) @@ ("weight_grams" :> PyInt(1))
        @@ ("name" :> PyStr(<<"b">>)),
     ("gearId" :> PyStr(<<"b">>)) @@ ("productType" :> PyStr(<<"T">>)),
     AltNode(<<"b">>, <<"T">>, 1) @@ ("price_usd" :> PyFloat(1))
        @@ ("capacityPersons" :> PyInt(2))}
AltStores ==
    {[gear |-> g, brands |-> <<>>, insights |-> <<>>] :
        g \in UNION {[1..n -> AltNodes] : n \in 0..MaxAltNodes}}

InitAlt == InitWith(AltStores, {TRUE}, {<<"k">>})
NextAlt == ResolveFindAlternatives \/ Return
SpecAlt == InitAlt /\ [][NextAlt]_vars

\* C5, C6: the reference item of the call, the first GearItem whose gearId is the
\* gear_id given (0: none).
C6_ReferenceIndex ==
    LET hits == {i \in 1..Len(store.gear) :
                    /\ "gearId" \in DOMAIN store.gear[i]
                    /\ store.gear[i]["gearId"] = args.gear_id}
    IN  IF hits = {} THEN 0 ELSE CHOOSE i \in hits : \A j \in hits : i <= j

\* C5: the list find_alternatives returns never holds an item whose gearId is
\* the reference id, holds only items whose productType is the override
\* filter's product_type when one is supplied and the reference item's
\* productType otherwise, is in ascending weight_grams order (items without a
\* weight last), and has at most limit entries.
C5_Alternatives ==
    (pc = "resolve_find_alternatives" /\ ~ret.raised) =>
        LET items == ret.value
            wanted == IF args.filter # PyNone /\ args.filter.product_type # PyNone
                      THEN args.filter.product_type
                      ELSE store.gear[C6_ReferenceIndex]["productType"]
        IN  /\ Len(items) <= args.limit
            /\ \A k \in 1..Len(items) :
                /\ items[k].gear_id # args.gear_id
                /\ items[k].product_type = wanted
            /\ \A k \in 1..(Len(items) - 1) :
                ~OrderLess(items[k + 1].weight_grams, items[k].weight_grams)

\* C6: when no GearItem has the reference id, or the reference item has no
\* product type, find_alternatives returns an empty list, raises nothing and
\* sends the reference statement only, never the candidate statement.
C6_NoReference ==
    (/\ pc = "resolve_find_alternatives"
     /\ \/ C6_ReferenceIndex = 0
        \/ "productType" \notin DOMAIN store.gear[C6_ReferenceIndex]) =>
        /\ ret = Value(<<>>)
        /\ Len(queries) = 1
        /\ queries[1].statement = "reference product type"

\* C6, witness: the reference item exists but has no product type, other
\* items could have been candidates, and a product_type override was passed.
C6_Witness ==
    /\ pc = "resolve_find_alternatives"
    /\ C6_ReferenceIndex # 0
    /\ "productType" \notin DOMAIN store.gear[C6_ReferenceIndex]
    /\ \E i \in 1..Len(store.gear) :
        /\ "gearId" \in DOMAIN store.gear[i]
        /\ store.gear[i]["gearId"] # args.gear_id
        /\ Prop(store.gear[i], "productType") = PyStr(<<"U">>)
    /\ args.filter # PyNone
    /\ args.filter.product_type = PyStr(<<"U">>)
    /\ args.limit > 0
    /\ ret = Value(<<>>)

-----------------------------------------------------------------------------
(* The filtered gear listing (C1).                                          *)

\* MATCH (g:GearItem) {where_clause} RETURN g
\* ORDER BY g.name SKIP $offset LIMIT $limit
AllGearRows(st, where, params) ==
    LET pass(g) == AllHold(where, g, params)
        rows == SelectSeq(st.gear, pass)
        keys == [k \in 1..Len(rows) |-> <<Prop(rows[k], "name")>>]
    IN  Limit(Skip(OrderBy(rows, keys), params["offset"].v), params["limit"].v)

\* The where_clauses and params resolve_all_gear builds from its filter.
AllGearQuery(filter, limit, offset) ==
    LET b0 == [where |-> <<>>,
               params |-> ("limit" :> PyInt(limit)) @@ ("offset" :> PyInt(offset))]
        b1 == Append_If(b0, filter.brand_name, "g.brand = $brand_name", "brand_name")
        b2 == Append_If(b1, filter.product_type,
                        "g.productType = $product_type", "product_type")
        b3 == Append_If(b2, filter.category, "g.category = $category", "category")
        b4 == Append_If(b3, filter.weight_grams_lt,
                        "g.weight_grams < $weight_lt", "weight_lt")
        b5 == Append_If(b4, filter.weight_grams_gt,
                        "g.weight_grams > $weight_gt", "weight_gt")
        b6 == Append_If(b5, filter.price_usd_lt, "g.price_usd < $price_lt", "price_lt")
        b7 == Append_If(b6, filter.price_usd_gt, "g.price_usd > $price_gt", "price_gt")
        b8 == Append_If(b7, filter.capacity_persons,
                        "g.capacityPersons = $capacity", "capacity")
    IN  IF filter = PyNone THEN b0 ELSE b8

\* resolvers.resolve_all_gear: what it returns and the statement it sends.
resolve_all_gear(filter, limit, offset) ==
    LET built == AllGearQuery(filter, limit, offset)
        sent == Statement("all gear", built.where, built.params)
    IN  IF ~up THEN [ret |-> Raised, queries |-> <<sent>>]
        ELSE [ret |-> Value(MapRows(AllGearRows(store, built.where, built.params))),
              queries |-> <<sent>>]

\* GearFilter values: every field unset, set to a value, or set to zero or to
\* the empty string, independently.
GearFilters ==
    {PyNone} \cup
    [brand_name : {PyNone, PyStr(<<>>), PyStr(<<"a">>)},
     product_type : {PyNone, PyStr(<<>>), PyStr(<<"T">>)},
     category : {PyNone, PyStr(<<>>), PyStr(<<"t">>)},
     weight_grams_lt : {PyNone, PyInt(0), PyInt(2)},
     weight_grams_gt : {PyNone, PyInt(0), PyInt(1)},
     price_usd_lt : {PyNone, PyFloat(0), PyFloat(2)},
     price_usd_gt : {PyNone, PyFloat(0), PyFloat(1)},
     capacity_persons : {PyNone, PyInt(0), PyInt(2)}]

ResolveAllGear ==
    /\ pc = "idle"
    /\ \E filter \in GearFilters, limit \in 0..MaxLimit, offset \in 0..MaxOffset :
        /\ pc' = "resolve_all_gear"
        /\ args' = [filter |-> filter, limit |-> limit, offset |-> offset]
        /\ get_db
        /\ ret' = resolve_all_gear(filter, limit, offset).ret
        /\ queries' = resolve_all_gear(filter, limit, offset).queries
    /\ UNCHANGED <<store, up, api_key>>

Tent ==
    ("gearId" :> PyStr(<<"a">>)) @@ ("name" :> PyStr(<<"a">>))
        @@ ("brand" :> PyStr(<<"a">>)) @@ ("productType" :> PyStr(<<"T">>))
        @@ ("category" :> PyStr(<<"t">>)) @@ ("weight_grams" :> PyInt(1))
        @@ ("price_usd" :> PyFloat(1)) @@ ("capacityPersons" :> PyInt(2))
Sample ==
    ("gearId" :> PyStr(<<"b">>)) @@ ("name" :> PyStr(<<"b">>))
        @@ ("brand" :> PyStr(<<"b">>)) @@ ("productType" :> PyStr(<<"U">>))
        @@ ("category" :> PyStr(<<"t">>)) @@ ("weight_grams" :> PyInt(0))
        @@ ("price_usd" :> PyFloat(0)) @@ ("capacityPersons" :> PyInt(0))
Bare == "name" :> PyStr(<<"A">>)
AllGearStores ==
    {[gear |-> g, brands |-> <<>>, insights |-> <<>>] :
        g \in {<<>>, <<Tent, Sample>>, <<Sample, Bare, Tent>>}}

InitAllGear == InitWith(AllGearStores, {TRUE}, {<<"k">>})
NextAllGear == ResolveAllGear \/ Return
SpecAllGear == InitAllGear /\ [][NextAllGear]_vars

\* C1: the filter fields, each with the clause and the parameter it contributes.
C1_FilterFields ==
    {[field |-> "brand_name", clause |-> "g.brand = $brand_name", key |-> "brand_name"],
     [field |-> "product_type", clause |-> "g.productType = $product_type",
      key |-> "product_type"],
     [field |-> "category", clause |-> "g.category = $category", key |-> "category"],
     [field |-> "weight_grams_lt", clause |-> "g.weight_grams < $weight_lt",
      key |-> "weight_lt"],
     [field |-> "weight_grams_gt", clause |-> "g.weight_grams > $weight_gt",
      key |-> "weight_gt"],
     [field |-> "price_usd_lt", clause |-> "g.price_usd < $price_lt", key |-> "price_lt"],
     [field |-> "price_usd_gt", clause |-> "g.price_usd > $price_gt", key |-> "price_gt"],
     [field |-> "capacity_persons", clause |-> "g.capacityPersons = $capacity",
      key |-> "capacity"]}

\* C1: the statement resolve_all_gear sends holds exactly one clause and one
\* bound parameter for every filter field that is set (zero and the empty
\* string included) and none for a field that is unset; with no filter, or
\* with every field unset, it has no WHERE clause.
C1_ClausePerSetField ==
    pc = "resolve_all_gear" =>
        LET sent == queries[1]
            isSet(f) == args.filter # PyNone /\ args.filter[f.field] # PyNone
            count(f) == Cardinality({k \in 1..Len(sent.where) : sent.where[k] = f.clause})
        IN  /\ \A f \in C1_FilterFields :
                /\ count(f) = IF isSet(f) THEN 1 ELSE 0
                /\ f.key \in DOMAIN sent.params <=> isSet(f)
                /\ isSet(f) => sent.params[f.key] = args.filter[f.field]
            /\ Len(sent.where) = Cardinality({f \in C1_FilterFields : isSet(f)})

-----------------------------------------------------------------------------
(* Autocomplete of gear and of brands (C10).                                *)

\* ORDER BY g.name alone, the CASE term dropped.
AutocompleteKeyByName(node, query) == <<Prop(node, "name")>>

\* ORDER BY CASE WHEN toLower(x.name) STARTS WITH toLower($query)
\*               THEN 0 ELSE 1 END, x.name
AutocompleteKey(node, query) ==
    <<PyInt(IF StartsWith(toLower(Prop(node, "name").v), toLower(query.v)) THEN 0 ELSE 1),
      Prop(node, "name")>>

\* MATCH (x) WHERE toLower(x.name) CONTAINS toLower($query)
\* RETURN ... ORDER BY ... LIMIT $limit, over the nodes of one label.
AutocompleteRows(nodes, query, limit) ==
    LET pass(x) == /\ Prop(x, "name") # PyNone
                   /\ Contains(toLower(Prop(x, "name").v), toLower(query.v))
        rows == SelectSeq(nodes, pass)
        keys == [k \in 1..Len(rows) |-> AutocompleteKey(rows[k], query)]
    IN  Limit(OrderBy(rows, keys), limit)

AutocompleteStatement(name, query, limit) ==
    Statement(name, <<"toLower(name) CONTAINS toLower($query)">>,
              ("query" :> query) @@ ("limit" :> PyInt(limit)))

\* resolvers.resolve_autocomplete_gear
resolve_autocomplete_gear(query, limit) ==
    IF ~up THEN Raised
    ELSE Value(MapRows(AutocompleteRows(store.gear, query, limit)))

\* resolvers.resolve_autocomplete_brands
resolve_autocomplete_brands(query, limit) ==
    IF ~up THEN Raised
    ELSE LET results == AutocompleteRows(store.brands, query, limit)
         IN  Value([k \in 1..Len(results) |->
                       [id |-> Prop(results[k], "name"),
                        name |-> Prop(results[k], "name"),
                        country |-> Prop(results[k], "country"),
                        website |-> Prop(results[k], "website"),
                        year_founded |-> PyNone,
                        description |-> PyNone,
                        best_known_for |-> PyNone]])

AutoQueries ==
    {PyStr(<<>>), PyStr(<<"a">>), PyStr(<<"A">>), PyStr(<<"b">>), PyStr(<<"a", "b">>)}

AutoLimits == {0, 1, MaxLimit}

ResolveAutocompleteGear ==
    /\ pc = "idle"
    /\ \E query \in AutoQueries, limit \in AutoLimits :
        /\ pc' = "resolve_autocomplete_gear"
        /\ args' = [query |-> query, limit |-> limit]
        /\ get_db
        /\ queries' = <<AutocompleteStatement("autocomplete gear", query, limit)>>
        /\ ret' = resolve_autocomplete_gear(query, limit)
    /\ UNCHANGED <<store, up, api_key>>

ResolveAutocompleteBrands ==
    /\ pc = "idle"
    /\ \E query \in AutoQueries, limit \in AutoLimits :
        /\ pc' = "resolve_autocomplete_brands"
        /\ args' = [query |-> query, limit |-> limit]
        /\ get_db
        /\ queries' = <<AutocompleteStatement("autocomplete brands", query, limit)>>
        /\ ret' = resolve_autocomplete_brands(query, limit)
    /\ UNCHANGED <<store, up, api_key>>

\* Stores whose GearItem and OutdoorBrand nodes carry the same names, over two
\* letters of different case, in every scan order; a node may have no name.
AutoNodes ==
    {NoProps} \cup {"name" :> PyStr(n) : n \in StringsUpTo({"a", "B"}, MaxNameLen) \ {<<>>}}
AutoStores ==
    {[gear |-> g, brands |-> g, insights |-> <<>>] :
        g \in UNION {[1..n -> AutoNodes] : n \in 0..MaxAutoNodes}}

InitAuto == InitWith(AutoStores, {TRUE}, {<<"k">>})
NextAuto == ResolveAutocompleteGear \/ ResolveAutocompleteBrands \/ Return
SpecAuto == InitAuto /\ [][NextAuto]_vars

-----------------------------------------------------------------------------
(* The category hierarchy (C11).                                            *)

\* The first occurrences of a sequence's values, in order.
RECURSIVE Distinct(_)
Distinct(s) ==
    IF s = <<>> THEN <<>>
    ELSE LET front == Distinct(SubSeq(s, 1, Len(s) - 1))
             last == s[Len(s)]
         IN  IF \E i \in 1..Len(front) : front[i] = last THEN front
             ELSE Append(front, last)

\* MATCH (c:Category)
\* OPTIONAL MATCH (pf:ProductFamily)-[:IN_CATEGORY]->(c)
\* One (c, pf) pair per family of the category, (c, null) for a category
\* without one, from Category number `from` on. A store keeps, with each
\* Category node, the ProductFamily nodes that point to it.
RECURSIVE CategoryMatches(_, _)
CategoryMatches(st, from) ==
    IF from > Len(st.categories) THEN <<>>
    ELSE LET c == st.categories[from].node
             pfs == st.categories[from].families
         IN  (IF pfs = <<>>
              THEN <<[category |-> Prop(c, "name"), product_type |-> PyNone]>>
              ELSE [k \in 1..Len(pfs) |->
                       [category |-> Prop(c, "name"),
                        product_type |-> Prop(pfs[k], "productType")]])
             \o CategoryMatches(st, from + 1)

\* RETURN c.name as category,
\*        collect(DISTINCT pf.productType) as product_types
\* ORDER BY c.name
\* One row per distinct c.name. A store that follows openCypher leaves null
\* out of collect(); the resolver does not rely on that, so a store that
\* keeps it (st.collect_nulls) is covered as well.
CategoryRows(st) ==
    LET matches == CategoryMatches(st, 1)
        names == Distinct([i \in 1..Len(matches) |-> matches[i].category])
        collect(n) ==
            LET grouped(m) == m.category = n
                group == SelectSeq(matches, grouped)
                kept(pt) == st.collect_nulls \/ pt # PyNone
            IN  SelectSeq(Distinct([i \in 1..Len(group) |-> group[i].product_type]), kept)
        rows == [k \in 1..Len(names) |->
                    [category |-> names[k], product_types |-> collect(names[k])]]
    IN  OrderBy(rows, [k \in 1..Len(rows) |-> <<rows[k].category>>])

CategoryStatement == Statement("all_categories", <<>>, NoProps)

All == PyStr(<<"A", "l", "l">>)

\* The loop body without the condition on the subcategory list: the "All"
\* subcategory is built for every row.
CategoryAlwaysAll(row) ==
    LET named(pt) == pt # PyNone
        pts == SelectSeq(row.product_types, named)
        product_types == [i \in 1..Len(pts) |-> [name |-> pts[i]]]
    IN  [name |-> row.category,
         subcategories |-> <<[name |-> All, product_types |-> product_types]>>]

\* The body of the loop of resolve_all_categories: the Category of one row.
Category(row) ==
    LET named(pt) == pt # PyNone
        pts == SelectSeq(row.product_types, named)
        product_types == [i \in 1..Len(pts) |-> [name |-> pts[i]]]
    IN  [name |-> row.category,
         subcategories |->
             IF product_types # <<>>
             THEN <<[name |-> All, product_types |-> product_types]>>
             ELSE <<>>]

\* resolvers.resolve_all_categories
resolve_all_categories ==
    IF ~up THEN Raised
    ELSE LET results == CategoryRows(store)
         IN  Value([k \in 1..Len(results) |-> Category(results[k])])

ResolveAllCategories ==
    /\ pc = "idle"
    /\ pc' = "resolve_all_categories"
    /\ args' = Nothing
    /\ get_db
    /\ queries' = <<CategoryStatement>>
    /\ ret' = resolve_all_categories
    /\ UNCHANGED <<store, up, api_key>>

\* Stores of Category nodes over two names (a node may have none, two may
\* share one), in every scan order, each with ProductFamily nodes whose
\* product type is absent, empty or one of two names.
CategoryNodes == {NoProps, "name" :> PyStr(<<"a">>), "name" :> PyStr(<<"B">>)}
NoType == NoProps
Typed(pt) == "productType" :> PyStr(pt)
FamilyLists ==
    {fs \in {<<>>, <<NoType>>, <<Typed(<<>>)>>, <<Typed(<<"T">>)>>,
             <<Typed(<<"T">>), Typed(<<"U">>)>>, <<Typed(<<"U">>), Typed(<<"T">>)>>,
             <<Typed(<<"T">>), NoType>>, <<Typed(<<"T">>), Typed(<<"T">>)>>,
             <<Typed(<<"U">>), NoType, Typed(<<"T">>)>>} :
        Len(fs) <= MaxFamilies}
CategoryStores ==
    {[gear |-> <<>>, brands |-> <<>>, insights |-> <<>>,
      categories |-> cs, collect_nulls |-> keep] :
        cs \in UNION {[1..n -> [node : CategoryNodes, families : FamilyLists]] :
                        n \in 0..MaxCategories},
        keep \in BOOLEAN}

InitCategories == InitWith(CategoryStores, BOOLEAN, {<<"k">>})
NextCategories == ResolveAllCategories \/ Return
SpecCategories == InitCategories /\ [][NextCategories]_vars

\* C11: resolve_all_categories yields one Category per row the category
\* statement returned, named after the row and in the rows' order. It has at
\* most one subcategory. When the row's collected list holds a product type
\* that is not null there is exactly one, named "All", holding the row's
\* non-null product types in returned order, which are the product types of
\* the families of the categories of that name; when it holds none, or only
\* nulls, the subcategory list is empty. No subcategory is without product
\* types.
C11_CategoryHierarchy ==
    (pc = "resolve_all_categories" /\ ~ret.raised) =>
        LET rows == CategoryRows(store)
            named(pt) == pt # PyNone
            stored(n) ==
                UNION {{Prop(store.categories[c].families[i], "productType") :
                            i \in 1..Len(store.categories[c].families)} :
                        c \in {d \in 1..Len(store.categories) :
                                Prop(store.categories[d].node, "name") = n}}
                    \ {PyNone}
        IN  /\ Len(ret.value) = Len(rows)
            /\ \A k \in 1..Len(rows) :
                LET category == ret.value[k]
                    subs == category.subcategories
                    types == SelectSeq(rows[k].product_types, named)
                IN  /\ category.name = rows[k].category
                    /\ Len(subs) <= 1
                    /\ \A s \in 1..Len(subs) : subs[s].product_types # <<>>
                    /\ types = <<>> => subs = <<>>
                    /\ types # <<>> =>
                        /\ Len(subs) = 1
                        /\ subs[1].name = All
                        /\ Len(subs[1].product_types) = Len(types)
                        /\ \A i \in 1..Len(types) :
                            subs[1].product_types[i] = [name |-> types[i]]
                        /\ {types[i] : i \in 1..Len(types)} = stored(rows[k].category)

\* C11, witness: one category has come back with the single subcategory
\* "All" holding two product types, another with no subcategory from a row
\* whose collected list held only null.
C11_Witness ==
    /\ pc = "resolve_all_categories"
    /\ ~ret.raised
    /\ Len(ret.value) = 2
    /\ Len(ret.value[1].subcategories) = 1
    /\ ret.value[1].subcategories[1].name = All
    /\ Len(ret.value[1].subcategories[1].product_types) = 2
    /\ CategoryRows(store)[2].product_types = <<PyNone>>
    /\ ret.value[2].subcategories = <<>>

-----------------------------------------------------------------------------
(* The connection handle under concurrent requests (C12). Each request      *)
(* runs get_db() on a thread of its own, one statement at a time, so that   *)
(* the threads interleave between any two reads and writes of the module's  *)
(* globals; memgraph.py takes no lock. close_db() runs at the shutdown,     *)
(* when no request is in flight.                                            *)

At(r, place) ==
    /\ lifespan = "running"
    /\ threads[r].at = place

Goto(r, place, value) ==
    /\ threads' = [threads EXCEPT ![r] = [at |-> place, driver |-> value]]
    /\ UNCHANGED <<store, up, api_key, lifespan, queries, pc, args, ret>>

\* get_db: `if _db_instance is None:`
GetDbTest(r) ==
    /\ At(r, "idle")
    /\ IF ~db_instance THEN Goto(r, "MemgraphDB.__init__", 0)
       ELSE Goto(r, "return _db_instance", 0)
    /\ UNCHANGED <<db_instance, instance_driver, _driver, drivers>>

\* MemgraphDB.__init__ calls get_driver: `if _driver is None:`
GetDriverTest(r) ==
    /\ At(r, "MemgraphDB.__init__")
    /\ IF _driver = 0 THEN Goto(r, "GraphDatabase.driver", 0)
       ELSE Goto(r, "return _driver", 0)
    /\ UNCHANGED <<db_instance, instance_driver, _driver, drivers>>

\* get_driver: GraphDatabase.driver(settings.memgraph_uri, auth=auth)
\* builds a driver, which the thread holds.
Construct(r) ==
    /\ At(r, "GraphDatabase.driver")
    /\ drivers' = Append(drivers, "open")
    /\ Goto(r, "_driver =", Len(drivers) + 1)
    /\ UNCHANGED <<db_instance, instance_driver, _driver>>

\* get_driver: `_driver = ` the driver just built
StoreDriver(r) ==
    /\ At(r, "_driver =")
    /\ _driver' = threads[r].driver
    /\ Goto(r, "return _driver", 0)
    /\ UNCHANGED <<db_instance, instance_driver, drivers>>

\* get_driver: `return _driver` reads the global; __init__ keeps the value
\* as self.driver of the wrapper under construction.
ReturnDriver(r) ==
    /\ At(r, "return _driver")
    /\ Goto(r, "_db_instance =", _driver)
    /\ UNCHANGED <<db_instance, instance_driver, _driver, drivers>>

\* get_db: `_db_instance = MemgraphDB()`
StoreInstance(r) ==
    /\ At(r, "_db_instance =")
    /\ db_instance' = TRUE
    /\ instance_driver' = threads[r].driver
    /\ Goto(r, "return _db_instance", 0)
    /\ UNCHANGED <<_driver, drivers>>

\* get_db: `return _db_instance` reads the global; the caller holds the
\* wrapper, and with it the wrapper's driver.
ReturnInstance(r) ==
    /\ At(r, "return _db_instance")
    /\ Goto(r, "execute_query", instance_driver)
    /\ UNCHANGED <<db_instance, instance_driver, _driver, drivers>>

\* MemgraphDB.execute_query: the call is served by a session of self.driver,
\* and the request ends.
ExecuteQuery(r) ==
    /\ At(r, "execute_query")
    /\ Goto(r, "idle", 0)
    /\ UNCHANGED <<db_instance, instance_driver, _driver, drivers>>

\* memgraph.close_db, called by main.lifespan after the last request.
close_db ==
    /\ lifespan = "running"
    /\ \A r \in Requests : threads[r] = Idle
    /\ lifespan' = "closed"
    /\ IF _driver # 0
       THEN /\ drivers' = [drivers EXCEPT ![_driver] = "closed"]
            /\ _driver' = 0
       ELSE UNCHANGED <<_driver, drivers>>
    /\ UNCHANGED <<store, up, api_key, db_instance, instance_driver, threads,
                   queries, pc, args, ret>>

InitThreads == InitWith({NoStore}, {TRUE}, {<<"k">>})
NextThreads ==
    \/ \E r \in Requests :
        \/ GetDbTest(r)
        \/ GetDriverTest(r)
        \/ Construct(r)
        \/ StoreDriver(r)
        \/ ReturnDriver(r)
        \/ StoreInstance(r)
        \/ ReturnInstance(r)
        \/ ExecuteQuery(r)
    \/ close_db
SpecThreads == InitThreads /\ [][NextThreads]_vars

\* C12: under every interleaving of the request threads the process has a
\* single connection handle. No driver is built before the first call of
\* get_db; at most one driver is ever built; every call is served by that
\* driver, the one in _driver, while it is open; and once close_db has run
\* at the shutdown every driver that was built is closed.
C12_SingleHandle ==
    /\ (~db_instance /\ \A r \in Requests : threads[r] = Idle) => drivers = <<>>
    /\ Len(drivers) <= 1
    /\ \A r \in Requests :
        threads[r].at = "execute_query" =>
            /\ threads[r].driver = _driver
            /\ drivers[threads[r].driver] = "open"
    /\ lifespan = "closed" => \A d \in 1..Len(drivers) : drivers[d] = "closed"

=============================================================================
